---------------------------- MODULE Spec2Model ----------------------------
(***************************************************************************)
(* Verification model of two files of rust-bitcoin:                        *)
(*                                                                         *)
(*   io/src/bridge.rs       the FromStd / ToStd adapters and the blanket   *)
(*                          bridges between the core IO traits and std::io *)
(*   bitcoin/src/network.rs the Network enumeration and its four tables    *)
(*                          (display name, core argument, magic, chain     *)
(*                          hash)                                          *)
(*                                                                         *)
(* Four specifications share the variables:                                *)
(*   SpecFaces the IO calls made through either face (core or host) of     *)
(*            one FromStd or ToStd, in the same lock step                  *)
(*   SpecNet  the Network tables, applied to inputs drawn by the initial   *)
(*            state                                                        *)
(*   SpecMem  construction and unwrapping of the adapters over a small     *)
(*            memory of addressed cells                                    *)
(*   Spec     the IO calls made through an adapter, in lock step with the  *)
(*            same calls made on the wrapped value directly                *)
(***************************************************************************)
EXTENDS Integers, Sequences, FiniteSets, TLC

VARIABLES
    netIn,      \* SpecNet: the Network variant given to the forward mappings
    extIn,      \* SpecNet: the external input (a string, bytes or a chain hash)
    netOut,     \* SpecNet: what the last operation returned
    cells,      \* SpecMem: the memory, address -> the bytes of a T stored there
    alloc,      \* SpecMem: the addresses that hold a live value
    obj,        \* SpecMem: the owner of the value: [kind, ty, addr]
    ref,        \* SpecMem: the live &mut reference made by new_mut, if any
    expect,     \* SpecMem: the value the program last gave the wrapped T
    memLast,    \* SpecMem: the last operation and the memory before it
    wrap,       \* Spec: the adapter or bridge the calls go through
    w,          \* Spec: the wrapped value, inside the adapter
    d,          \* Spec: the same value, called directly (the reference run)
    last,       \* Spec: the last call, its result through the adapter and directly
    cur,        \* Spec: the slice the last fill_buf returned and the bytes consumed since
    drained     \* Spec: the bytes of a read_exact that took all the source held

netVars == <<netIn, extIn, netOut>>

memVars == <<cells, alloc, obj, ref, expect, memLast>>

ioVars == <<wrap, w, d, last, cur, drained>>

vars == <<netVars, memVars, ioVars>>

(***************************************************************************)
(* Results.  Ok(v) and Err(e) of Rust's Result; Some(v) and None of Option *)
(* are written with the same records.                                      *)
(***************************************************************************)
Ok(v) == [ok |-> TRUE, val |-> v]

Err(e) == [ok |-> FALSE, val |-> e]

\* Result::ok / Option from Result: the error payload is dropped.
ResultOk(r) == IF r.ok THEN r ELSE Err("None")

(***************************************************************************)
(*                 io/src/bridge.rs: construction and access               *)
(*                                                                         *)
(* A value of T lives in one cell of the memory.  FromStd<T> and ToStd<T>  *)
(* are #[repr(transparent)] structs of one field: the bytes of a wrapper   *)
(* are the bytes of its field, at the same address.  A handle names the    *)
(* type through which a cell is viewed and the cell's address.             *)
(***************************************************************************)
MaxAddr == 3

MaxVal == 2

Addr == 1 .. MaxAddr

Val == 0 .. MaxVal

Wrappers == {"FromStd", "ToStd"}

Handle(ty, addr) == [ty |-> ty, addr |-> addr]

NoRef == Handle("none", 0)

\* The value a cell holds, read at type ty.
Load(mem, ty, addr) ==
    IF ty = "T" THEN mem[addr] ELSE [w |-> ty, f0 |-> mem[addr]]

\* The bytes of a value x of type ty (repr(transparent): those of field 0).
Bytes(ty, x) == IF ty = "T" THEN x ELSE x.f0

\* pub const fn new(inner: T) -> Self { Self(inner) }
FromStd_new(inner) == [w |-> "FromStd", f0 |-> inner]

\* pub fn into_inner(self) -> T { self.0 }
FromStd_into_inner(self) == self.f0

\* pub fn inner(&self) -> &T { &self.0 }
FromStd_inner(self) == Handle("T", self.addr)

\* pub fn inner_mut(&mut self) -> &mut T { &mut self.0 }
FromStd_inner_mut(self) == Handle("T", self.addr)

\* new_mut that wraps a copy placed in the next cell instead of casting.
FromStd_new_mut_copy(inner) == Handle("FromStd", (inner.addr % MaxAddr) + 1)

\* unsafe { &mut *(inner as *mut _ as *mut Self) }
FromStd_new_mut(inner) == Handle("FromStd", inner.addr)

\* unsafe { Box::from_raw(Box::into_raw(inner) as *mut Self) }
FromStd_new_boxed(inner) == Handle("FromStd", inner.addr)

ToStd_new(inner) == [w |-> "ToStd", f0 |-> inner]

ToStd_into_inner(self) == self.f0

ToStd_inner(self) == Handle("T", self.addr)

ToStd_inner_mut(self) == Handle("T", self.addr)

ToStd_new_mut(inner) == Handle("ToStd", inner.addr)

ToStd_new_boxed(inner) == Handle("ToStd", inner.addr)

\* The method of the wrapper type W.
new(W, inner) == IF W = "FromStd" THEN FromStd_new(inner) ELSE ToStd_new(inner)

into_inner(W, self) ==
    IF W = "FromStd" THEN FromStd_into_inner(self) ELSE ToStd_into_inner(self)

inner(W, self) == IF W = "FromStd" THEN FromStd_inner(self) ELSE ToStd_inner(self)

inner_mut(W, self) ==
    IF W = "FromStd" THEN FromStd_inner_mut(self) ELSE ToStd_inner_mut(self)

new_mut(W, h) == IF W = "FromStd" THEN FromStd_new_mut(h) ELSE ToStd_new_mut(h)

new_boxed(W, h) == IF W = "FromStd" THEN FromStd_new_boxed(h) ELSE ToStd_new_boxed(h)

NoMemOp == [op |-> "none", addr |-> 0, alloc |-> {}]

Before(op) == [op |-> op, addr |-> obj.addr, alloc |-> alloc]

\* A move of the bytes at address from to address to (to = from: in place).
Moved(mem, from, to, bytes) == [[mem EXCEPT ![from] = 0] EXCEPT ![to] = bytes]

\* let w = W::new(v): the value is moved into the wrapper.
MemNew(W) ==
    /\ obj.kind = "value" /\ obj.ty = "T" /\ ref = NoRef
    /\ \E to \in Addr :
          /\ cells' = Moved(cells, obj.addr, to,
                            Bytes(W, new(W, Load(cells, "T", obj.addr))))
          /\ alloc' = {to}
          /\ obj' = [kind |-> "value", ty |-> W, addr |-> to]
    /\ memLast' = Before("new")
    /\ UNCHANGED <<ref, expect, netVars, ioVars>>

\* let v = w.into_inner(): the value is moved out of the wrapper.
MemIntoInner ==
    /\ obj.kind = "value" /\ obj.ty \in Wrappers /\ ref = NoRef
    /\ \E to \in Addr :
          /\ cells' = Moved(cells, obj.addr, to,
                            Bytes("T", into_inner(obj.ty, Load(cells, obj.ty, obj.addr))))
          /\ alloc' = {to}
          /\ obj' = [kind |-> "value", ty |-> "T", addr |-> to]
    /\ memLast' = Before("into_inner")
    /\ UNCHANGED <<ref, expect, netVars, ioVars>>

\* let b = W::new_boxed(b): the allocation is handed over, relabelled.
MemNewBoxed(W) ==
    /\ obj.kind = "box" /\ obj.ty = "T" /\ ref = NoRef
    /\ LET b == new_boxed(W, Handle("T", obj.addr)) IN
          /\ obj' = [kind |-> "box", ty |-> b.ty, addr |-> b.addr]
          /\ alloc' = {b.addr}
    /\ memLast' = Before("new_boxed")
    /\ UNCHANGED <<cells, ref, expect, netVars, ioVars>>

\* let w = *b: the boxed value is moved out and the allocation freed.
MemUnbox ==
    /\ obj.kind = "box" /\ ref = NoRef
    /\ \E to \in Addr :
          /\ cells' = Moved(cells, obj.addr, to, cells[obj.addr])
          /\ alloc' = {to}
          /\ obj' = [kind |-> "value", ty |-> obj.ty, addr |-> to]
    /\ memLast' = Before("unbox")
    /\ UNCHANGED <<ref, expect, netVars, ioVars>>

\* let b = Box::new(v), for a value of T.
MemBox ==
    /\ obj.kind = "value" /\ obj.ty = "T" /\ ref = NoRef
    /\ \E to \in Addr :
          /\ cells' = Moved(cells, obj.addr, to, cells[obj.addr])
          /\ alloc' = {to}
          /\ obj' = [kind |-> "box", ty |-> "T", addr |-> to]
    /\ memLast' = Before("box")
    /\ UNCHANGED <<ref, expect, netVars, ioVars>>

\* let r = W::new_mut(&mut v): v stays where it is, borrowed.
MemNewMut(W) ==
    /\ obj.ty = "T" /\ ref = NoRef
    /\ ref' = new_mut(W, Handle("T", obj.addr))
    /\ memLast' = Before("new_mut")
    /\ UNCHANGED <<cells, alloc, obj, expect, netVars, ioVars>>

\* *r.inner_mut() = x, through the reference new_mut returned.
MemWriteRef(x) ==
    /\ ref # NoRef
    /\ cells' = [cells EXCEPT ![inner_mut(ref.ty, ref).addr] = x]
    /\ expect' = x
    /\ memLast' = Before("write_ref")
    /\ UNCHANGED <<alloc, obj, ref, netVars, ioVars>>

\* *w.inner_mut() = x, on an owned or boxed wrapper.
MemWriteOwned(x) ==
    /\ obj.ty \in Wrappers /\ ref = NoRef
    /\ cells' = [cells EXCEPT ![inner_mut(obj.ty, Handle(obj.ty, obj.addr)).addr] = x]
    /\ expect' = x
    /\ memLast' = Before("write_owned")
    /\ UNCHANGED <<alloc, obj, ref, netVars, ioVars>>

\* The borrow made by new_mut ends; v is used directly again.
MemEndBorrow ==
    /\ ref # NoRef
    /\ ref' = NoRef
    /\ memLast' = Before("end_borrow")
    /\ UNCHANGED <<cells, alloc, obj, expect, netVars, ioVars>>

NextMem ==
    \/ \E W \in Wrappers : MemNew(W)
    \/ MemIntoInner
    \/ \E W \in Wrappers : MemNewBoxed(W)
    \/ MemUnbox
    \/ MemBox
    \/ \E W \in Wrappers : MemNewMut(W)
    \/ \E x \in Val : MemWriteRef(x)
    \/ \E x \in Val : MemWriteOwned(x)
    \/ MemEndBorrow

(***************************************************************************)
(*                     io/src/bridge.rs: the IO calls                      *)
(*                                                                         *)
(* The wrapped value.  The adapters are generic in it; the model wraps a   *)
(* buffered reader over a source of bytes (std::io::BufReader<R>, or a     *)
(* core type of the same behaviour under ToStd), a writer that buffers     *)
(* what it accepts until flush, or the Sink.  A source hands out at most   *)
(* chunk bytes per read, a writer accepts at most chunk bytes per write    *)
(* and room bytes in all (chunk is one byte, or no limit); an armed fault  *)
(* makes the next call that reaches the source or the writer fail with     *)
(* that error kind.                                                        *)
(***************************************************************************)
MaxLen == 4

MaxCap == 2

MaxRoom == 2

MaxWrite == 2

Min(a, b) == IF a < b THEN a ELSE b

Take(s, k) == SubSeq(s, 1, k)

Drop(s, k) == SubSeq(s, k + 1, Len(s))

IsPrefix(p, s) == Len(p) <= Len(s) /\ Take(s, Len(p)) = p

\* The bytes a, a+1, .., a+n-1.
Run(a, n) == [i \in 1 .. n |-> a + i - 1]

\* Error kinds: those of std::io::ErrorKind the model uses, and those the
\* core ErrorKind has.  Unsupported is a host kind the core does not have.
HostKinds == {"UnexpectedEof", "WriteZero", "BrokenPipe", "Other", "Unsupported"}

CoreKinds == {"UnexpectedEof", "WriteZero", "BrokenPipe", "Other"}

KindsOf(dom) == IF dom = "std" THEN HostKinds ELSE CoreKinds

\* The kinds a source or writer of that error type fails with in the model.
FaultKinds(dom) ==
    IF dom = "std" THEN {"BrokenPipe", "Unsupported"} ELSE {"BrokenPipe", "Other"}

Error(dom, kind) == [ty |-> dom, kind |-> kind]

\* ErrorKind::from_std / ErrorKind::to_std
ErrorKind_from_std(k) == IF k \in CoreKinds THEN k ELSE "Other"

ErrorKind_to_std(k) == k

\* impl From<std::io::Error> for Error, impl From<Error> for std::io::Error
Error_from_std(e) == Error("core", ErrorKind_from_std(e.kind))

std_from_Error(e) == Error("std", ErrorKind_to_std(e.kind))

\* Into::into between the error type of the wrapped value and the other one.
Into(e) == IF e.ty = "std" THEN Error_from_std(e) ELSE std_from_Error(e)

\* Result::map_err(Into::into)
map_err_into(r) == IF r.ok THEN r ELSE Err(Into(r.val))

\* Ok(expr?) with the error converted by From
Ok_try(r) == IF r.ok THEN Ok(r.val) ELSE Err(Into(r.val))

Unit == "unit"

Reply(v, res) == [v |-> v, res |-> res]

\* R::read on the source behind the buffered reader.
Source_read(v, n) ==
    IF v.fault # "none"
    THEN Reply([v EXCEPT !.fault = "none"], Err(Error(v.dom, v.fault)))
    ELSE LET k == Min(Min(n, v.chunk), Len(v.data)) IN
         Reply([v EXCEPT !.data = Drop(@, k)], Ok(Take(v.data, k)))

\* BufRead::fill_buf of the buffered reader: refills only an empty buffer.
Buffered_fill_buf(v) ==
    IF v.buf = << >>
    THEN LET r == Source_read(v, v.cap) IN
         IF r.res.ok THEN Reply([r.v EXCEPT !.buf = r.res.val], Ok(r.res.val)) ELSE r
    ELSE Reply(v, Ok(v.buf))

\* BufRead::consume of the buffered reader.
Buffered_consume(v, amount) ==
    Reply([v EXCEPT !.buf = Drop(@, Min(amount, Len(@)))], Ok(Unit))

\* Read::read of the buffered reader: a large read on an empty buffer goes
\* to the source, any other read is served from the (re)filled buffer.
Buffered_read(v, n) ==
    IF v.buf = << >> /\ n >= v.cap
    THEN Source_read(v, n)
    ELSE LET f == Buffered_fill_buf(v) IN
         IF ~f.res.ok THEN f
         ELSE LET k == Min(n, Len(f.v.buf)) IN
              Reply([f.v EXCEPT !.buf = Drop(@, k)], Ok(Take(f.v.buf, k)))

\* Read::read_exact of the buffered reader: reads until n bytes are there,
\* fails with UnexpectedEof at the end of input, and keeps what it consumed.
RECURSIVE Buffered_read_exact_loop(_, _, _)
Buffered_read_exact_loop(v, n, acc) ==
    IF n = 0 THEN Reply(v, Ok(acc))
    ELSE LET r == Buffered_read(v, n) IN
         IF ~r.res.ok THEN r
         ELSE IF r.res.val = << >> THEN Reply(r.v, Err(Error(v.dom, "UnexpectedEof")))
         ELSE Buffered_read_exact_loop(r.v, n - Len(r.res.val), acc \o r.res.val)

Buffered_read_exact(v, n) == Buffered_read_exact_loop(v, n, << >>)

\* Write::write of the writer: accepts a prefix of buf into its buffer.
Writer_write(v, buf) ==
    IF v.fault # "none"
    THEN Reply([v EXCEPT !.fault = "none"], Err(Error(v.dom, v.fault)))
    ELSE LET k == Min(Min(Len(buf), v.chunk), v.room) IN
         Reply([v EXCEPT !.pend = @ \o Take(buf, k), !.room = @ - k], Ok(k))

\* Write::write_all of the writer: writes until buf is accepted, fails with
\* WriteZero when nothing more is accepted, and keeps what it wrote.
RECURSIVE Writer_write_all(_, _)
Writer_write_all(v, buf) ==
    IF buf = << >> THEN Reply(v, Ok(Unit))
    ELSE LET r == Writer_write(v, buf) IN
         IF ~r.res.ok THEN r
         ELSE IF r.res.val = 0 THEN Reply(r.v, Err(Error(v.dom, "WriteZero")))
         ELSE Writer_write_all(r.v, Drop(buf, r.res.val))

\* Write::flush of the writer: the buffered bytes reach the destination.
Writer_flush(v) ==
    IF v.fault # "none"
    THEN Reply([v EXCEPT !.fault = "none"], Err(Error(v.dom, v.fault)))
    ELSE Reply([v EXCEPT !.dest = @ \o v.pend, !.pend = << >>], Ok(Unit))

\* One call of a native method of the wrapped value (self.0.method(..)):
\* the reply, and the name of the method in the log of calls made.
Called(name, r) == [v |-> r.v, res |-> r.res, log |-> <<name>>]

Inner_read(v, n) == Called("read", Buffered_read(v, n))

Inner_read_exact(v, n) == Called("read_exact", Buffered_read_exact(v, n))

Inner_fill_buf(v) == Called("fill_buf", Buffered_fill_buf(v))

Inner_consume(v, amount) == Called("consume", Buffered_consume(v, amount))

Inner_write(v, buf) == Called("write", Writer_write(v, buf))

Inner_write_all(v, buf) == Called("write_all", Writer_write_all(v, buf))

Inner_flush(v) == Called("flush", Writer_flush(v))

\* What an adapter method returns: the wrapped value after the call, the
\* result, and the native calls it made.
Returned(r, res) == [v |-> r.v, res |-> res, log |-> r.log]

(***************************************************************************)
(* impl super::{Read, BufRead, Write} for FromStd<T>                       *)
(***************************************************************************)
\* A read that calls the wrapped value again when the first call failed.
FromStd_read_retry(self, n) ==
    LET r == Inner_read(self, n) IN
    IF r.res.ok THEN Returned(r, map_err_into(r.res))
    ELSE LET q == Inner_read(r.v, n) IN
         [v |-> q.v, res |-> map_err_into(q.res), log |-> r.log \o q.log]

FromStd_read(self, n) ==
    LET r == Inner_read(self, n) IN Returned(r, map_err_into(r.res))

\* A read_exact that is a single read.
FromStd_read_exact_once(self, n) ==
    LET r == Inner_read(self, n) IN Returned(r, map_err_into(r.res))

FromStd_read_exact(self, n) ==
    LET r == Inner_read_exact(self, n) IN Returned(r, map_err_into(r.res))

FromStd_fill_buf(self) ==
    LET r == Inner_fill_buf(self) IN Returned(r, map_err_into(r.res))

\* A consume that does not reach the wrapped value.
FromStd_consume_dropped(self, amount) ==
    [v |-> self, res |-> Ok(Unit), log |-> << >>]

FromStd_consume(self, amount) ==
    LET r == Inner_consume(self, amount) IN Returned(r, r.res)

FromStd_write(self, buf) ==
    LET r == Inner_write(self, buf) IN Returned(r, map_err_into(r.res))

FromStd_flush(self) ==
    LET r == Inner_flush(self) IN Returned(r, map_err_into(r.res))

\* A write_all that is a single write.
FromStd_write_all_once(self, buf) ==
    LET r == Inner_write(self, buf) IN
    Returned(r, IF r.res.ok THEN Ok(Unit) ELSE map_err_into(r.res))

FromStd_write_all(self, buf) ==
    LET r == Inner_write_all(self, buf) IN Returned(r, map_err_into(r.res))

(***************************************************************************)
(* impl std::io::{Read, BufRead, Write} for ToStd<T>                       *)
(***************************************************************************)
ToStd_read(self, n) ==
    LET r == Inner_read(self, n) IN Returned(r, map_err_into(r.res))

ToStd_read_exact(self, n) ==
    LET r == Inner_read_exact(self, n) IN Returned(r, map_err_into(r.res))

ToStd_fill_buf(self) ==
    LET r == Inner_fill_buf(self) IN Returned(r, map_err_into(r.res))

ToStd_consume(self, amount) ==
    LET r == Inner_consume(self, amount) IN Returned(r, r.res)

ToStd_write(self, buf) ==
    LET r == Inner_write(self, buf) IN Returned(r, map_err_into(r.res))

ToStd_flush(self) ==
    LET r == Inner_flush(self) IN Returned(r, map_err_into(r.res))

ToStd_write_all(self, buf) ==
    LET r == Inner_write_all(self, buf) IN Returned(r, map_err_into(r.res))

(***************************************************************************)
(* impl std::io::{Read, BufRead, Write} for FromStd<T>: the host face of   *)
(* FromStd hands the call to the wrapped value and returns its result as   *)
(* it is.                                                                  *)
(***************************************************************************)
\* A host-face read that reads from a copy of the wrapped value and leaves
\* the wrapped value where it was.
FromStd_std_read_detached(self, n) ==
    LET r == Inner_read(self, n) IN [v |-> self, res |-> r.res, log |-> r.log]

FromStd_std_read(self, n) ==
    LET r == Inner_read(self, n) IN Returned(r, r.res)

FromStd_std_read_exact(self, n) ==
    LET r == Inner_read_exact(self, n) IN Returned(r, r.res)

FromStd_std_fill_buf(self) ==
    LET r == Inner_fill_buf(self) IN Returned(r, r.res)

FromStd_std_consume(self, amount) ==
    LET r == Inner_consume(self, amount) IN Returned(r, r.res)

FromStd_std_write(self, buf) ==
    LET r == Inner_write(self, buf) IN Returned(r, r.res)

FromStd_std_flush(self) ==
    LET r == Inner_flush(self) IN Returned(r, r.res)

FromStd_std_write_all(self, buf) ==
    LET r == Inner_write_all(self, buf) IN Returned(r, r.res)

(***************************************************************************)
(* impl super::{Read, BufRead, Write} for ToStd<T>: the core face of ToStd *)
(***************************************************************************)
ToStd_core_read(self, n) ==
    LET r == Inner_read(self, n) IN Returned(r, r.res)

ToStd_core_read_exact(self, n) ==
    LET r == Inner_read_exact(self, n) IN Returned(r, r.res)

ToStd_core_fill_buf(self) ==
    LET r == Inner_fill_buf(self) IN Returned(r, r.res)

ToStd_core_consume(self, amount) ==
    LET r == Inner_consume(self, amount) IN Returned(r, r.res)

ToStd_core_write(self, buf) ==
    LET r == Inner_write(self, buf) IN Returned(r, r.res)

ToStd_core_flush(self) ==
    LET r == Inner_flush(self) IN Returned(r, r.res)

ToStd_core_write_all(self, buf) ==
    LET r == Inner_write_all(self, buf) IN Returned(r, r.res)

(***************************************************************************)
(* The blanket bridges: the core traits for std::io::BufReader<R> and      *)
(* std::io::BufWriter<W>, std::io::Write for the core Sink.                *)
(***************************************************************************)
BufReader_read(self, n) ==
    LET r == Inner_read(self, n) IN Returned(r, Ok_try(r.res))

BufReader_fill_buf(self) ==
    LET r == Inner_fill_buf(self) IN Returned(r, Ok_try(r.res))

BufReader_consume(self, amount) ==
    LET r == Inner_consume(self, amount) IN Returned(r, r.res)

\* The core Read trait's provided read_exact, which the BufReader bridge
\* does not override: reads through the bridge's read until n bytes are
\* there, and fails at the end of input.
RECURSIVE Read_read_exact(_, _, _, _)
Read_read_exact(self, n, acc, log) ==
    IF n = 0 THEN [v |-> self, res |-> Ok(acc), log |-> log]
    ELSE LET r == BufReader_read(self, n) IN
         IF ~r.res.ok THEN [v |-> r.v, res |-> r.res, log |-> log \o r.log]
         ELSE IF r.res.val = << >>
              THEN [v |-> r.v, res |-> Err(Error("core", "UnexpectedEof")),
                    log |-> log \o r.log]
         ELSE Read_read_exact(r.v, n - Len(r.res.val), acc \o r.res.val, log \o r.log)

BufReader_read_exact(self, n) == Read_read_exact(self, n, << >>, << >>)

BufWriter_write(self, buf) ==
    LET r == Inner_write(self, buf) IN Returned(r, Ok_try(r.res))

BufWriter_flush(self) ==
    LET r == Inner_flush(self) IN Returned(r, Ok_try(r.res))

\* A Sink write that reports nothing written.
Sink_write_zero(self, buf) == [v |-> self, res |-> Ok(0), log |-> << >>]

Sink_write(self, buf) == [v |-> self, res |-> Ok(Len(buf)), log |-> << >>]

Sink_write_all(self, buf) == [v |-> self, res |-> Ok(Unit), log |-> << >>]

Sink_flush(self) == [v |-> self, res |-> Ok(Unit), log |-> << >>]

\* pub struct Sink: no field.
Sink == [role |-> "sink"]

(***************************************************************************)
(* The calls.  Each one is made through the adapter on w and, for the      *)
(* reference run, natively on d.                                           *)
(***************************************************************************)
Readers == {"FromStd", "ToStd", "BufReader"}

Writers == {"FromStd", "ToStd", "BufWriter", "Sink"}

\* Whether bridge.rs defines the method for that adapter (the others are
\* the provided methods of the core traits).
Defines(W, op) ==
    CASE W = "BufReader" -> op \in {"read", "fill_buf", "consume"}
      [] W = "BufWriter" -> op \in {"write", "flush"}
      [] OTHER           -> TRUE

Adapter_read(self, n) ==
    CASE wrap = "FromStd"   -> FromStd_read(self, n)
      [] wrap = "ToStd"     -> ToStd_read(self, n)
      [] wrap = "BufReader" -> BufReader_read(self, n)

Adapter_read_exact(self, n) ==
    CASE wrap = "FromStd"   -> FromStd_read_exact(self, n)
      [] wrap = "ToStd"     -> ToStd_read_exact(self, n)
      [] wrap = "BufReader" -> BufReader_read_exact(self, n)

Adapter_fill_buf(self) ==
    CASE wrap = "FromStd"   -> FromStd_fill_buf(self)
      [] wrap = "ToStd"     -> ToStd_fill_buf(self)
      [] wrap = "BufReader" -> BufReader_fill_buf(self)

Adapter_consume(self, amount) ==
    CASE wrap = "FromStd"   -> FromStd_consume(self, amount)
      [] wrap = "ToStd"     -> ToStd_consume(self, amount)
      [] wrap = "BufReader" -> BufReader_consume(self, amount)

Adapter_write(self, buf) ==
    CASE wrap = "FromStd"   -> FromStd_write(self, buf)
      [] wrap = "ToStd"     -> ToStd_write(self, buf)
      [] wrap = "BufWriter" -> BufWriter_write(self, buf)
      [] wrap = "Sink"      -> Sink_write(self, buf)

Adapter_write_all(self, buf) ==
    CASE wrap = "FromStd"   -> FromStd_write_all(self, buf)
      [] wrap = "ToStd"     -> ToStd_write_all(self, buf)
      [] wrap = "Sink"      -> Sink_write_all(self, buf)

Adapter_flush(self) ==
    CASE wrap = "FromStd"   -> FromStd_flush(self)
      [] wrap = "ToStd"     -> ToStd_flush(self)
      [] wrap = "BufWriter" -> BufWriter_flush(self)
      [] wrap = "Sink"      -> Sink_flush(self)

\* The unread input of a reader: its buffer, then what the source holds.
Remaining(v) == v.buf \o v.data

NoCall ==
    [op |-> "none", arg |-> 0, res |-> Ok(Unit), dres |-> Ok(Unit), log |-> << >>,
     pre |-> << >>, fault |-> "none", prev |-> [valid |-> FALSE, s |-> << >>, n |-> 0]]

NoCur == [valid |-> FALSE, s |-> << >>, n |-> 0]

NotDrained == [done |-> FALSE, bytes |-> << >>]

\* The record of a call: a is what the adapter returned, r the native reply.
Record(op, arg, a, r) ==
    [op |-> op, arg |-> arg, res |-> a.res, dres |-> r.res, log |-> a.log,
     pre |-> IF w.role = "r" THEN Remaining(w) ELSE << >>,
     fault |-> IF w.role = "sink" THEN "none" ELSE w.fault,
     prev |-> IF op = "fill_buf" THEN cur ELSE NoCur]

WriteBufs == {Run(a, n) : a \in 1 .. 2, n \in 0 .. MaxWrite}

\* The capacities of a buffered reader and the chunks of a source or writer.
Caps == {1, MaxCap}

Chunks == {1, MaxLen}

CallRead(n) ==
    /\ wrap \in Readers /\ w.role = "r"
    /\ LET a == Adapter_read(w, n)
           r == Inner_read(d, n) IN
          /\ w' = a.v
          /\ d' = r.v
          /\ last' = Record("read", n, a, r)
    /\ cur' = NoCur
    /\ UNCHANGED <<wrap, drained, netVars, memVars>>

CallReadExact(n) ==
    /\ wrap \in Readers /\ w.role = "r"
    /\ LET a == Adapter_read_exact(w, n)
           r == Inner_read_exact(d, n) IN
          /\ w' = a.v
          /\ d' = r.v
          /\ last' = Record("read_exact", n, a, r)
          /\ drained' = IF ~drained.done /\ a.res.ok /\ n = Len(Remaining(w))
                        THEN [done |-> TRUE, bytes |-> a.res.val] ELSE drained
    /\ cur' = NoCur
    /\ UNCHANGED <<wrap, netVars, memVars>>

CallFillBuf ==
    /\ wrap \in Readers /\ w.role = "r"
    /\ LET a == Adapter_fill_buf(w)
           r == Inner_fill_buf(d) IN
          /\ w' = a.v
          /\ d' = r.v
          /\ last' = Record("fill_buf", 0, a, r)
          /\ cur' = IF a.res.ok THEN [valid |-> TRUE, s |-> a.res.val, n |-> 0] ELSE cur
    /\ UNCHANGED <<wrap, drained, netVars, memVars>>

CallConsume(n) ==
    /\ wrap \in Readers /\ w.role = "r"
    /\ LET a == Adapter_consume(w, n)
           r == Inner_consume(d, n) IN
          /\ w' = a.v
          /\ d' = r.v
          /\ last' = Record("consume", n, a, r)
    /\ cur' = IF cur.valid /\ cur.n + n <= Len(cur.s)
              THEN [cur EXCEPT !.n = @ + n] ELSE NoCur
    /\ UNCHANGED <<wrap, drained, netVars, memVars>>

CallWrite(buf) ==
    /\ wrap \in Writers /\ w.role # "r"
    /\ LET a == Adapter_write(w, buf)
           r == IF wrap = "Sink" THEN a ELSE Inner_write(d, buf) IN
          /\ w' = a.v
          /\ d' = r.v
          /\ last' = Record("write", buf, a, r)
    /\ UNCHANGED <<wrap, cur, drained, netVars, memVars>>

CallWriteAll(buf) ==
    /\ wrap \in Writers \ {"BufWriter"} /\ w.role # "r"
    /\ LET a == Adapter_write_all(w, buf)
           r == IF wrap = "Sink" THEN a ELSE Inner_write_all(d, buf) IN
          /\ w' = a.v
          /\ d' = r.v
          /\ last' = Record("write_all", buf, a, r)
    /\ UNCHANGED <<wrap, cur, drained, netVars, memVars>>

CallFlush ==
    /\ wrap \in Writers /\ w.role # "r"
    /\ LET a == Adapter_flush(w)
           r == IF wrap = "Sink" THEN a ELSE Inner_flush(d) IN
          /\ w' = a.v
          /\ d' = r.v
          /\ last' = Record("flush", 0, a, r)
    /\ UNCHANGED <<wrap, cur, drained, netVars, memVars>>

\* The environment: the source or the writer will fail its next call.
ArmFault(k) ==
    /\ w.role # "sink"
    /\ w.fault = "none"
    /\ k \in FaultKinds(w.dom)
    /\ w' = [w EXCEPT !.fault = k]
    /\ d' = [d EXCEPT !.fault = k]
    /\ UNCHANGED <<wrap, last, cur, drained, netVars, memVars>>

Next ==
    \/ \E n \in 0 .. MaxCap : CallRead(n)
    \/ \E n \in 0 .. MaxLen : CallReadExact(n)
    \/ CallFillBuf
    \/ \E n \in 0 .. MaxCap : CallConsume(n)
    \/ \E buf \in WriteBufs : CallWrite(buf)
    \/ \E buf \in WriteBufs : CallWriteAll(buf)
    \/ CallFlush
    \/ \E k \in HostKinds : ArmFault(k)

(***************************************************************************)
(* The calls through the two faces of one FromStd or ToStd.  Every call    *)
(* names the face it is made through: "core" for the core traits, "std"    *)
(* for the host ones.                                                      *)
(***************************************************************************)
Faces == {"core", "std"}

Face_read(f, self, n) ==
    CASE wrap = "FromStd" /\ f = "core" -> FromStd_read(self, n)
      [] wrap = "FromStd" /\ f = "std"  -> FromStd_std_read(self, n)
      [] wrap = "ToStd" /\ f = "std"    -> ToStd_read(self, n)
      [] wrap = "ToStd" /\ f = "core"   -> ToStd_core_read(self, n)

Face_read_exact(f, self, n) ==
    CASE wrap = "FromStd" /\ f = "core" -> FromStd_read_exact(self, n)
      [] wrap = "FromStd" /\ f = "std"  -> FromStd_std_read_exact(self, n)
      [] wrap = "ToStd" /\ f = "std"    -> ToStd_read_exact(self, n)
      [] wrap = "ToStd" /\ f = "core"   -> ToStd_core_read_exact(self, n)

Face_fill_buf(f, self) ==
    CASE wrap = "FromStd" /\ f = "core" -> FromStd_fill_buf(self)
      [] wrap = "FromStd" /\ f = "std"  -> FromStd_std_fill_buf(self)
      [] wrap = "ToStd" /\ f = "std"    -> ToStd_fill_buf(self)
      [] wrap = "ToStd" /\ f = "core"   -> ToStd_core_fill_buf(self)

Face_consume(f, self, amount) ==
    CASE wrap = "FromStd" /\ f = "core" -> FromStd_consume(self, amount)
      [] wrap = "FromStd" /\ f = "std"  -> FromStd_std_consume(self, amount)
      [] wrap = "ToStd" /\ f = "std"    -> ToStd_consume(self, amount)
      [] wrap = "ToStd" /\ f = "core"   -> ToStd_core_consume(self, amount)

Face_write(f, self, buf) ==
    CASE wrap = "FromStd" /\ f = "core" -> FromStd_write(self, buf)
      [] wrap = "FromStd" /\ f = "std"  -> FromStd_std_write(self, buf)
      [] wrap = "ToStd" /\ f = "std"    -> ToStd_write(self, buf)
      [] wrap = "ToStd" /\ f = "core"   -> ToStd_core_write(self, buf)

Face_write_all(f, self, buf) ==
    CASE wrap = "FromStd" /\ f = "core" -> FromStd_write_all(self, buf)
      [] wrap = "FromStd" /\ f = "std"  -> FromStd_std_write_all(self, buf)
      [] wrap = "ToStd" /\ f = "std"    -> ToStd_write_all(self, buf)
      [] wrap = "ToStd" /\ f = "core"   -> ToStd_core_write_all(self, buf)

Face_flush(f, self) ==
    CASE wrap = "FromStd" /\ f = "core" -> FromStd_flush(self)
      [] wrap = "FromStd" /\ f = "std"  -> FromStd_std_flush(self)
      [] wrap = "ToStd" /\ f = "std"    -> ToStd_flush(self)
      [] wrap = "ToStd" /\ f = "core"   -> ToStd_core_flush(self)

\* The record of a call made through the face f.
FaceRecord(op, f, arg, a, r) ==
    [op |-> op, face |-> f, arg |-> arg, res |-> a.res, dres |-> r.res,
     log |-> a.log, prev |-> IF op = "fill_buf" THEN cur ELSE NoCur]

FaceRead(f, n) ==
    /\ w.role = "r"
    /\ LET a == Face_read(f, w, n)
           r == Inner_read(d, n) IN
          /\ w' = a.v
          /\ d' = r.v
          /\ last' = FaceRecord("read", f, n, a, r)
    /\ cur' = NoCur
    /\ UNCHANGED <<wrap, drained, netVars, memVars>>

FaceReadExact(f, n) ==
    /\ w.role = "r"
    /\ LET a == Face_read_exact(f, w, n)
           r == Inner_read_exact(d, n) IN
          /\ w' = a.v
          /\ d' = r.v
          /\ last' = FaceRecord("read_exact", f, n, a, r)
    /\ cur' = NoCur
    /\ UNCHANGED <<wrap, drained, netVars, memVars>>

\* cur keeps the slice returned and the faces used since, that of this
\* fill_buf included.
FaceFillBuf(f) ==
    /\ w.role = "r"
    /\ LET a == Face_fill_buf(f, w)
           r == Inner_fill_buf(d) IN
          /\ w' = a.v
          /\ d' = r.v
          /\ last' = FaceRecord("fill_buf", f, 0, a, r)
          /\ cur' = IF a.res.ok
                    THEN [valid |-> TRUE, s |-> a.res.val, n |-> 0, faces |-> {f}]
                    ELSE NoCur
    /\ UNCHANGED <<wrap, drained, netVars, memVars>>

FaceConsume(f, n) ==
    /\ w.role = "r"
    /\ LET a == Face_consume(f, w, n)
           r == Inner_consume(d, n) IN
          /\ w' = a.v
          /\ d' = r.v
          /\ last' = FaceRecord("consume", f, n, a, r)
    /\ cur' = IF cur.valid /\ cur.n + n <= Len(cur.s)
              THEN [cur EXCEPT !.n = @ + n, !.faces = @ \cup {f}] ELSE NoCur
    /\ UNCHANGED <<wrap, drained, netVars, memVars>>

FaceWrite(f, buf) ==
    /\ w.role = "w"
    /\ LET a == Face_write(f, w, buf)
           r == Inner_write(d, buf) IN
          /\ w' = a.v
          /\ d' = r.v
          /\ last' = FaceRecord("write", f, buf, a, r)
    /\ UNCHANGED <<wrap, cur, drained, netVars, memVars>>

FaceWriteAll(f, buf) ==
    /\ w.role = "w"
    /\ LET a == Face_write_all(f, w, buf)
           r == Inner_write_all(d, buf) IN
          /\ w' = a.v
          /\ d' = r.v
          /\ last' = FaceRecord("write_all", f, buf, a, r)
    /\ UNCHANGED <<wrap, cur, drained, netVars, memVars>>

FaceFlush(f) ==
    /\ w.role = "w"
    /\ LET a == Face_flush(f, w)
           r == Inner_flush(d) IN
          /\ w' = a.v
          /\ d' = r.v
          /\ last' = FaceRecord("flush", f, 0, a, r)
    /\ UNCHANGED <<wrap, cur, drained, netVars, memVars>>

\* The wrapper seen as memory: one cell, holding the bytes of its field.
AsCell(self) == [a \in Addr |-> IF a = 1 THEN Bytes(wrap, new(wrap, self)) ELSE 0]

\* inner(), inner_mut() or into_inner() on the wrapper: the wrapped value
\* they give.  After into_inner the value is wrapped again (new).
Expose(op) ==
    /\ op \in {"inner", "inner_mut", "into_inner"}
    /\ LET seen ==
             CASE op = "inner" ->
                     Load(AsCell(w), "T", inner(wrap, Handle(wrap, 1)).addr)
               [] op = "inner_mut" ->
                     Load(AsCell(w), "T", inner_mut(wrap, Handle(wrap, 1)).addr)
               [] op = "into_inner" ->
                     into_inner(wrap, Load(AsCell(w), wrap, 1))
       IN /\ last' = [op |-> op, face |-> "none", arg |-> 0, res |-> Ok(seen),
                      dres |-> Ok(d), log |-> << >>, prev |-> NoCur]
          /\ w' = IF op = "into_inner" THEN into_inner(wrap, new(wrap, seen)) ELSE w
    /\ cur' = NoCur
    /\ UNCHANGED <<wrap, d, drained, netVars, memVars>>

\* The failures armed here: one kind both error types have, one only the
\* host has.
FaceFaults == {"BrokenPipe", "Unsupported"}

NextFaces ==
    \/ \E f \in Faces, n \in 0 .. MaxCap : FaceRead(f, n)
    \/ \E f \in Faces, n \in 0 .. MaxLen : FaceReadExact(f, n)
    \/ \E f \in Faces : FaceFillBuf(f)
    \/ \E f \in Faces, n \in 0 .. MaxCap : FaceConsume(f, n)
    \/ \E f \in Faces, buf \in WriteBufs : FaceWrite(f, buf)
    \/ \E f \in Faces, buf \in WriteBufs : FaceWriteAll(f, buf)
    \/ \E f \in Faces : FaceFlush(f)
    \/ \E op \in {"inner", "inner_mut", "into_inner"} : Expose(op)
    \/ \E k \in FaceFaults : ArmFault(k)

(***************************************************************************)
(*                         bitcoin/src/network.rs                          *)
(***************************************************************************)
Network == {"Bitcoin", "Testnet", "Testnet4", "Signet", "Regtest", "CPUNet"}

to_core_arg_swapped(self) ==
    CASE self = "Bitcoin"  -> "main"
      [] self = "Testnet"  -> "testnet4"
      [] self = "Testnet4" -> "test"
      [] self = "Signet"   -> "signet"
      [] self = "Regtest"  -> "regtest"
      [] self = "CPUNet"   -> "cpunet"

to_core_arg(self) ==
    CASE self = "Bitcoin"  -> "main"
      [] self = "Testnet"  -> "test"
      [] self = "Testnet4" -> "testnet4"
      [] self = "Signet"   -> "signet"
      [] self = "Regtest"  -> "regtest"
      [] self = "CPUNet"   -> "cpunet"

\* A from_core_arg that also takes "testnet", for Testnet4.
from_core_arg_aliased(core_arg) ==
    CASE core_arg = "main"     -> Ok("Bitcoin")
      [] core_arg = "test"     -> Ok("Testnet")
      [] core_arg = "testnet4" -> Ok("Testnet4")
      [] core_arg = "testnet"  -> Ok("Testnet4")
      [] core_arg = "signet"   -> Ok("Signet")
      [] core_arg = "regtest"  -> Ok("Regtest")
      [] core_arg = "cpunet"   -> Ok("CPUNet")
      [] OTHER                 -> Err(core_arg)

from_core_arg(core_arg) ==
    CASE core_arg = "main"     -> Ok("Bitcoin")
      [] core_arg = "test"     -> Ok("Testnet")
      [] core_arg = "testnet4" -> Ok("Testnet4")
      [] core_arg = "signet"   -> Ok("Signet")
      [] core_arg = "regtest"  -> Ok("Regtest")
      [] core_arg = "cpunet"   -> Ok("CPUNet")
      [] OTHER                 -> Err(core_arg)

as_display_str_merged(self) ==
    CASE self = "Bitcoin"  -> "bitcoin"
      [] self = "Testnet"  -> "testnet"
      [] self = "Testnet4" -> "testnet"
      [] self = "Signet"   -> "signet"
      [] self = "Regtest"  -> "regtest"
      [] self = "CPUNet"   -> "cpunet"

as_display_str(self) ==
    CASE self = "Bitcoin"  -> "bitcoin"
      [] self = "Testnet"  -> "testnet"
      [] self = "Testnet4" -> "testnet4"
      [] self = "Signet"   -> "signet"
      [] self = "Regtest"  -> "regtest"
      [] self = "CPUNet"   -> "cpunet"

\* impl fmt::Display for Network: write!(f, "{}", self.as_display_str())
to_string(self) == as_display_str(self)

\* A parser that falls back to Bitcoin for a string it does not know.
from_str_fallback(s) ==
    CASE s = "bitcoin"  -> Ok("Bitcoin")
      [] s = "testnet"  -> Ok("Testnet")
      [] s = "testnet4" -> Ok("Testnet4")
      [] s = "signet"   -> Ok("Signet")
      [] s = "regtest"  -> Ok("Regtest")
      [] s = "cpunet"   -> Ok("CPUNet")
      [] OTHER          -> Ok("Bitcoin")

from_str(s) ==
    CASE s = "bitcoin"  -> Ok("Bitcoin")
      [] s = "testnet"  -> Ok("Testnet")
      [] s = "testnet4" -> Ok("Testnet4")
      [] s = "signet"   -> Ok("Signet")
      [] s = "regtest"  -> Ok("Regtest")
      [] s = "cpunet"   -> Ok("CPUNet")
      [] OTHER          -> Err(s)

(***************************************************************************)
(* Magic (p2p) and its consensus encoding.  A Magic holds the four wire    *)
(* bytes in wire order (the first byte is the least significant one of the *)
(* 32-bit network value); serializing writes them in that order.           *)
(***************************************************************************)
Magic_from_bytes(b) == [magic |-> <<b[1], b[2], b[3], b[4]>>]

\* consensus::encode::serialize(&Magic)
serialize_magic(m) == << m.magic[1], m.magic[2], m.magic[3], m.magic[4] >>

\* consensus::encode::deserialize::<Magic>: exactly four bytes, or an error.
deserialize_magic(bytes) ==
    IF Len(bytes) = 4 THEN Ok(Magic_from_bytes(bytes)) ELSE Err("ParseFailed")

\* impl From<Network> for Magic
Magic_from_Network(n) ==
    CASE n = "Bitcoin"  -> Magic_from_bytes(<<249, 190, 180, 217>>)
      [] n = "Testnet"  -> Magic_from_bytes(<<11, 17, 9, 7>>)
      [] n = "Testnet4" -> Magic_from_bytes(<<28, 22, 63, 40>>)
      [] n = "Signet"   -> Magic_from_bytes(<<10, 3, 207, 64>>)
      [] n = "Regtest"  -> Magic_from_bytes(<<250, 191, 181, 218>>)
      [] n = "CPUNet"   -> Magic_from_bytes(<<99, 112, 117, 110>>)

\* impl TryFrom<Magic> for Network
Network_try_from_Magic(m) ==
    CASE m = Magic_from_bytes(<<249, 190, 180, 217>>) -> Ok("Bitcoin")
      [] m = Magic_from_bytes(<<11, 17, 9, 7>>)       -> Ok("Testnet")
      [] m = Magic_from_bytes(<<28, 22, 63, 40>>)     -> Ok("Testnet4")
      [] m = Magic_from_bytes(<<10, 3, 207, 64>>)     -> Ok("Signet")
      [] m = Magic_from_bytes(<<250, 191, 181, 218>>) -> Ok("Regtest")
      [] m = Magic_from_bytes(<<99, 112, 117, 110>>)  -> Ok("CPUNet")
      [] OTHER                                        -> Err(m)

magic_of_kind(self) ==
    Magic_from_Network(IF self = "Bitcoin" THEN "Bitcoin" ELSE "Testnet")

magic(self) == Magic_from_Network(self)

from_magic(m) == ResultOk(Network_try_from_Magic(m))

(***************************************************************************)
(* Chain hashes.  A ChainHash is written by the name of its constant; the  *)
(* 32 bytes behind each name are pairwise different.                       *)
(***************************************************************************)
ChainHashConst == {"BITCOIN", "TESTNET3", "TESTNET4", "SIGNET", "REGTEST", "CPUNET"}

\* ChainHash::using_genesis_block_const
using_genesis_block_const(n) ==
    CASE n = "Bitcoin"  -> "BITCOIN"
      [] n = "Testnet"  -> "TESTNET3"
      [] n = "Testnet4" -> "TESTNET4"
      [] n = "Signet"   -> "SIGNET"
      [] n = "Regtest"  -> "REGTEST"
      [] n = "CPUNet"   -> "CPUNET"

chain_hash(self) == using_genesis_block_const(self)

Network_try_from_ChainHash_shifted(h) ==
    CASE h = "BITCOIN"  -> Ok("Bitcoin")
      [] h = "TESTNET3" -> Ok("Testnet")
      [] h = "TESTNET4" -> Ok("Testnet")
      [] h = "SIGNET"   -> Ok("Signet")
      [] h = "REGTEST"  -> Ok("Regtest")
      [] h = "CPUNET"   -> Ok("CPUNet")
      [] OTHER          -> Err(h)

Network_try_from_ChainHash(h) ==
    CASE h = "BITCOIN"  -> Ok("Bitcoin")
      [] h = "TESTNET3" -> Ok("Testnet")
      [] h = "TESTNET4" -> Ok("Testnet4")
      [] h = "SIGNET"   -> Ok("Signet")
      [] h = "REGTEST"  -> Ok("Regtest")
      [] h = "CPUNET"   -> Ok("CPUNet")
      [] OTHER          -> Err(h)

from_chain_hash(h) == ResultOk(Network_try_from_ChainHash(h))

(***************************************************************************)
(* SpecNet: the inputs and the operations applied to them.                 *)
(***************************************************************************)
StrInputs ==
    {"bitcoin", "testnet", "testnet4", "signet", "regtest", "cpunet",
     "main", "test", "fakenet", "Bitcoin", "testnet3", ""}

ByteInputs ==
    {<<249, 190, 180, 217>>, <<11, 17, 9, 7>>, <<28, 22, 63, 40>>,
     <<10, 3, 207, 64>>, <<250, 191, 181, 218>>, <<99, 112, 117, 110>>,
     <<255, 255, 255, 255>>, <<217, 180, 190, 249>>, <<0, 0, 0, 0>>,
     <<249, 190, 180>>, <<249, 190, 180, 217, 0>>}

HashInputs == ChainHashConst \cup {"ZERO", "LIQUID"}

ExtInputs ==
    [ty : {"str"}, v : StrInputs] \cup [ty : {"bytes"}, v : ByteInputs]
        \cup [ty : {"hash"}, v : HashInputs]

NoOut == [op |-> "none", fwd |-> "none", res |-> Err("none")]

\* n.to_string() and then str::parse::<Network>
DisplayThenParse ==
    /\ netOut' = [op |-> "display_parse", fwd |-> to_string(netIn),
                  res |-> from_str(to_string(netIn))]
    /\ UNCHANGED <<netIn, extIn, memVars, ioVars>>

\* s.parse::<Network>() and then to_string on what it returned
ParseThenDisplay ==
    /\ extIn.ty = "str"
    /\ LET r == from_str(extIn.v) IN
       netOut' = [op |-> "parse_display",
                  fwd |-> IF r.ok THEN to_string(r.val) ELSE "none",
                  res |-> r]
    /\ UNCHANGED <<netIn, extIn, memVars, ioVars>>

\* n.to_core_arg() and then Network::from_core_arg
CoreArgThenParse ==
    /\ netOut' = [op |-> "core_arg_parse", fwd |-> to_core_arg(netIn),
                  res |-> from_core_arg(to_core_arg(netIn))]
    /\ UNCHANGED <<netIn, extIn, memVars, ioVars>>

\* Network::from_core_arg(s) and then to_core_arg on what it returned
ParseThenCoreArg ==
    /\ extIn.ty = "str"
    /\ LET r == from_core_arg(extIn.v) IN
       netOut' = [op |-> "parse_core_arg",
                  fwd |-> IF r.ok THEN to_core_arg(r.val) ELSE "none",
                  res |-> r]
    /\ UNCHANGED <<netIn, extIn, memVars, ioVars>>

\* serialize(&n.magic()), and Network::from_magic(n.magic())
MagicSerialize ==
    /\ netOut' = [op |-> "magic_serialize", fwd |-> serialize_magic(magic(netIn)),
                  res |-> from_magic(magic(netIn))]
    /\ UNCHANGED <<netIn, extIn, memVars, ioVars>>

\* deserialize::<Magic>(bytes), and Network::from_magic of the magic read
MagicDeserialize ==
    /\ extIn.ty = "bytes"
    /\ LET m == deserialize_magic(extIn.v) IN
       netOut' = [op |-> "magic_deserialize", fwd |-> m,
                  res |-> IF m.ok THEN from_magic(m.val) ELSE Err("None")]
    /\ UNCHANGED <<netIn, extIn, memVars, ioVars>>

\* Network::try_from(n.chain_hash()) and Network::from_chain_hash(n.chain_hash())
ChainHashThenBack ==
    /\ netOut' = [op |-> "chain_hash_back", fwd |-> chain_hash(netIn),
                  res |-> << Network_try_from_ChainHash(chain_hash(netIn)),
                             from_chain_hash(chain_hash(netIn)) >>]
    /\ UNCHANGED <<netIn, extIn, memVars, ioVars>>

\* Network::try_from(h) for a chain hash h, and chain_hash() of what it returned
BackThenChainHash ==
    /\ extIn.ty = "hash"
    /\ LET r == Network_try_from_ChainHash(extIn.v) IN
       netOut' = [op |-> "back_chain_hash",
                  fwd |-> IF r.ok THEN chain_hash(r.val) ELSE "none",
                  res |-> << r, from_chain_hash(extIn.v) >>]
    /\ UNCHANGED <<netIn, extIn, memVars, ioVars>>

\* n.to_core_arg() given to str::parse::<Network>
CoreArgThenFromStr ==
    /\ netOut' = [op |-> "core_arg_from_str", fwd |-> to_core_arg(netIn),
                  res |-> from_str(to_core_arg(netIn))]
    /\ UNCHANGED <<netIn, extIn, memVars, ioVars>>

\* n.to_string() given to Network::from_core_arg
DisplayThenFromCoreArg ==
    /\ netOut' = [op |-> "display_from_core_arg", fwd |-> to_string(netIn),
                  res |-> from_core_arg(to_string(netIn))]
    /\ UNCHANGED <<netIn, extIn, memVars, ioVars>>

NextNet ==
    \/ DisplayThenParse
    \/ ParseThenDisplay
    \/ CoreArgThenParse
    \/ ParseThenCoreArg
    \/ MagicSerialize
    \/ MagicDeserialize
    \/ ChainHashThenBack
    \/ BackThenChainHash
    \/ CoreArgThenFromStr
    \/ DisplayThenFromCoreArg

(***************************************************************************)
(* The specifications.  Each one starts the other parts idle and leaves    *)
(* them unchanged.                                                         *)
(***************************************************************************)
MemIdle ==
    /\ cells = [a \in Addr |-> 0]
    /\ alloc = {}
    /\ obj = [kind |-> "value", ty |-> "T", addr |-> 1]
    /\ ref = NoRef
    /\ expect = 0
    /\ memLast = NoMemOp

NetIdle ==
    /\ netIn = "Bitcoin"
    /\ extIn = [ty |-> "str", v |-> ""]
    /\ netOut = NoOut

IoIdle ==
    /\ wrap = "Sink"
    /\ w = Sink
    /\ d = Sink
    /\ last = NoCall
    /\ cur = NoCur
    /\ drained = NotDrained

\* The error type of the value an adapter wraps.
DomOf(W) == IF W = "ToStd" THEN "core" ELSE "std"

NewReader(dom, m, cap, chunk) ==
    [role |-> "r", dom |-> dom, data |-> Run(1, m), buf |-> << >>,
     cap |-> cap, chunk |-> chunk, fault |-> "none"]

NewWriter(dom, room, chunk) ==
    [role |-> "w", dom |-> dom, dest |-> << >>, pend |-> << >>,
     room |-> room, chunk |-> chunk, fault |-> "none"]

Init ==
    /\ wrap \in {"FromStd", "ToStd", "BufReader", "BufWriter", "Sink"}
    /\ w \in CASE wrap = "Sink" -> {Sink}
               [] wrap = "BufReader" ->
                     {NewReader("std", m, c, k) :
                         m \in 0 .. MaxLen, c \in Caps, k \in Chunks}
               [] wrap = "BufWriter" ->
                     {NewWriter("std", r, k) : r \in 0 .. MaxRoom, k \in Chunks}
               [] OTHER ->
                     {NewReader(DomOf(wrap), m, c, k) :
                         m \in 0 .. MaxLen, c \in Caps, k \in Chunks}
                     \cup {NewWriter(DomOf(wrap), r, k) :
                             r \in 0 .. MaxRoom, k \in Chunks}
    /\ d = w
    /\ last = NoCall
    /\ cur = NoCur
    /\ drained = NotDrained
    /\ NetIdle
    /\ MemIdle

InitMem ==
    /\ \E a \in Addr, v \in Val, k \in {"value", "box"} :
          /\ cells = [x \in Addr |-> IF x = a THEN v ELSE 0]
          /\ alloc = {a}
          /\ obj = [kind |-> k, ty |-> "T", addr |-> a]
          /\ expect = v
    /\ ref = NoRef
    /\ memLast = NoMemOp
    /\ NetIdle
    /\ IoIdle

InitNet ==
    /\ netIn \in Network
    /\ extIn \in ExtInputs
    /\ netOut = NoOut
    /\ MemIdle
    /\ IoIdle

\* One FromStd or ToStd over a reader or a writer, for the calls through
\* both of its faces.
InitFaces ==
    /\ wrap \in Wrappers
    /\ w \in {NewReader(DomOf(wrap), m, c, k) :
                  m \in 0 .. MaxLen, c \in Caps, k \in Chunks}
              \cup {NewWriter(DomOf(wrap), r, k) :
                      r \in 0 .. MaxRoom, k \in Chunks}
    /\ d = w
    /\ last = NoCall
    /\ cur = NoCur
    /\ drained = NotDrained
    /\ NetIdle
    /\ MemIdle

Spec == Init /\ [][Next]_vars

SpecMem == InitMem /\ [][NextMem]_vars

SpecNet == InitNet /\ [][NextNet]_vars

SpecFaces == InitFaces /\ [][NextFaces]_vars

(***************************************************************************)
(*                               The claims                                *)
(***************************************************************************)

\* C2.  Wrap/unwrap round trip, for FromStd and ToStd alike.  The value read
\* back through into_inner or inner is the value the program last gave the
\* wrapped T (the one wrapped, or the one written through inner_mut); the
\* value lives in exactly one cell and no other cell is touched; new_boxed
\* keeps the allocation (same address, no new cell); the reference new_mut
\* returns, and inner_mut on it, designate the address of the borrowed value,
\* so a write through the wrapper is the value of v afterwards.
WrapUnwrapRoundTrip ==
    /\ alloc = {obj.addr}
    /\ \A a \in Addr \ alloc : cells[a] = 0
    /\ obj.ty = "T" => Load(cells, "T", obj.addr) = expect
    /\ obj.ty \in Wrappers =>
          /\ into_inner(obj.ty, Load(cells, obj.ty, obj.addr)) = expect
          /\ Load(cells, "T", inner(obj.ty, Handle(obj.ty, obj.addr)).addr) = expect
    /\ ref # NoRef =>
          /\ ref.ty \in Wrappers
          /\ ref.addr = obj.addr
          /\ inner_mut(ref.ty, ref).addr = obj.addr
          /\ cells[obj.addr] = expect
    /\ memLast.op = "new_boxed" =>
          /\ obj.kind = "box" /\ obj.ty \in Wrappers
          /\ obj.addr = memLast.addr
          /\ alloc = memLast.alloc

\* C2 witness: a value was written through the reference new_mut returned
\* and the borrowed value, in its own cell, now holds it.
WrapUnwrapReached ==
    /\ memLast.op = "write_ref"
    /\ ref.ty = "FromStd"
    /\ obj.ty = "T"
    /\ expect = MaxVal
    /\ cells[obj.addr] = MaxVal

\* The names string_test expects of Display.
DisplayNames ==
    [Bitcoin |-> "bitcoin", Testnet |-> "testnet", Testnet4 |-> "testnet4",
     Signet |-> "signet", Regtest |-> "regtest", CPUNet |-> "cpunet"]

\* C7.  Parsing the Display string of a variant returns that variant; every
\* string FromStr accepts is the Display string of what it returns; the six
\* names are the lowercase strings of string_test, pairwise distinct.
NameRoundTrip ==
    /\ netOut.op = "display_parse" =>
          /\ netOut.fwd = DisplayNames[netIn]
          /\ netOut.res = Ok(netIn)
    /\ netOut.op = "parse_display" /\ netOut.res.ok =>
          /\ netOut.res.val \in Network
          /\ netOut.fwd = extIn.v
    /\ \A a, b \in Network : a # b => to_string(a) # to_string(b)

\* C7 witness: "testnet4" was printed for Testnet4 and parsed back.
NameRoundTripReached ==
    /\ netOut.op = "display_parse"
    /\ netIn = "Testnet4"
    /\ netOut.fwd = "testnet4"
    /\ netOut.res = Ok("Testnet4")

\* The names from_to_core_arg expects of to_core_arg.
CoreArgNames ==
    [Bitcoin |-> "main", Testnet |-> "test", Testnet4 |-> "testnet4",
     Signet |-> "signet", Regtest |-> "regtest", CPUNet |-> "cpunet"]

\* C8.  from_core_arg(n.to_core_arg()) is Ok(n); every string from_core_arg
\* accepts is the core argument of what it returns; to_core_arg is injective.
CoreArgRoundTrip ==
    /\ netOut.op = "core_arg_parse" =>
          /\ netOut.fwd = CoreArgNames[netIn]
          /\ netOut.res = Ok(netIn)
    /\ netOut.op = "parse_core_arg" /\ netOut.res.ok =>
          /\ netOut.res.val \in Network
          /\ netOut.fwd = extIn.v
    /\ \A a, b \in Network : a # b => to_core_arg(a) # to_core_arg(b)

\* C8 witness: "test" was accepted as Testnet and given back as "test".
CoreArgRoundTripReached ==
    /\ netOut.op = "parse_core_arg"
    /\ extIn.v = "test"
    /\ netOut.res = Ok("Testnet")
    /\ netOut.fwd = "test"

\* The wire bytes of serialize_test and of the module's doc example.
MagicBytes ==
    [Bitcoin |-> <<249, 190, 180, 217>>, Testnet |-> <<11, 17, 9, 7>>,
     Testnet4 |-> <<28, 22, 63, 40>>, Signet |-> <<10, 3, 207, 64>>,
     Regtest |-> <<250, 191, 181, 218>>, CPUNet |-> <<99, 112, 117, 110>>]

\* C9.  serialize(n.magic()) is the variant's four bytes in table order;
\* deserializing those bytes gives n.magic() again; from_magic(n.magic()) is
\* Some(n); the six magics are pairwise distinct.
MagicRoundTrip ==
    /\ netOut.op = "magic_serialize" =>
          /\ netOut.fwd = MagicBytes[netIn]
          /\ netOut.res = Ok(netIn)
    /\ netOut.op = "magic_deserialize" =>
          \A n \in Network : extIn.v = MagicBytes[n] =>
              /\ netOut.fwd = Ok(magic(n))
              /\ netOut.res = Ok(n)
    /\ \A a, b \in Network : a # b => magic(a) # magic(b)

\* C9 witness: F9 BE B4 D9 was deserialized and is the magic of Bitcoin.
MagicRoundTripReached ==
    /\ netOut.op = "magic_deserialize"
    /\ extIn.v = <<249, 190, 180, 217>>
    /\ netOut.fwd = Ok(magic("Bitcoin"))
    /\ netOut.res = Ok("Bitcoin")

\* The pairing of chain hash constants and variants the claim lists.
ChainHashOf ==
    [Bitcoin |-> "BITCOIN", Testnet |-> "TESTNET3", Testnet4 |-> "TESTNET4",
     Signet |-> "SIGNET", Regtest |-> "REGTEST", CPUNet |-> "CPUNET"]

\* C10.  Network::try_from(n.chain_hash()) is Ok(n) and
\* from_chain_hash(n.chain_hash()) is Some(n); chain_hash is injective; each
\* chain hash constant is matched to the variant that produces it.
ChainHashRoundTrip ==
    /\ netOut.op = "chain_hash_back" =>
          /\ netOut.fwd = ChainHashOf[netIn]
          /\ netOut.res = << Ok(netIn), Ok(netIn) >>
    /\ netOut.op = "back_chain_hash" =>
          \A n \in Network : extIn.v = ChainHashOf[n] =>
              /\ netOut.res = << Ok(n), Ok(n) >>
              /\ netOut.fwd = extIn.v
    /\ \A a, b \in Network : a # b => chain_hash(a) # chain_hash(b)

\* C10 witness: the chain hash of CPUNet was mapped back to CPUNet.
ChainHashRoundTripReached ==
    /\ netOut.op = "chain_hash_back"
    /\ netIn = "CPUNet"
    /\ netOut.fwd = "CPUNET"
    /\ netOut.res = << Ok("CPUNet"), Ok("CPUNet") >>

\* C1.  Pass-through fidelity of FromStd and ToStd: after any sequence of
\* calls the wrapped value is in the state the same native calls leave it
\* in (the bytes taken from the source, the bytes handed to the
\* destination, in order), and each call returns what the native call
\* returns: the same byte count, bytes or unit, or an error where the native
\* call fails.
PassThroughFidelity ==
    wrap \in {"FromStd", "ToStd"} =>
        /\ w = d
        /\ last.op # "none" =>
              /\ last.res.ok = last.dres.ok
              /\ last.res.ok => last.res = last.dres

\* C1 witness: a write_all through FromStd that took two native writes of
\* one byte each and left both bytes, in order, with the writer.
PassThroughReached ==
    /\ wrap = "FromStd"
    /\ last.op = "write_all"
    /\ last.arg = <<1, 2>>
    /\ last.res = Ok(Unit)
    /\ w.chunk = 1
    /\ w.pend = <<1, 2>>
    /\ d.pend = <<1, 2>>

\* C3.  The Sink through std::io::Write: write returns the length of the
\* buffer, write_all and flush return unit, and the Sink is as it was
\* constructed after every call.
SinkAlwaysSucceeds ==
    wrap = "Sink" =>
        /\ w = Sink
        /\ last.op = "write" => last.res = Ok(Len(last.arg))
        /\ last.op \in {"write_all", "flush"} => last.res = Ok(Unit)
        /\ last.op \in {"none", "write", "write_all", "flush"}

\* C3 witness: two bytes were written to the Sink and 2 was returned.
SinkReached ==
    /\ wrap = "Sink"
    /\ last.op = "write"
    /\ last.arg = <<2, 3>>
    /\ last.res = Ok(2)
    /\ w = Sink

\* C4.  The buffered-read cursor.  When fill_buf returned the slice s, n of
\* its bytes (0 <= n <= Len(s)) were consumed and nothing else was called,
\* the next fill_buf that returns data begins at s[n]: the rest of s comes
\* first when n < Len(s), the same bytes s when n = 0, and the byte that
\* follows s in the stream when all of s was consumed.  (The source holds
\* the bytes 1, 2, .., so the byte that follows b in the stream is b + 1.)
BufReadCursor ==
    (last.op = "fill_buf" /\ last.res.ok /\ last.prev.valid) =>
        LET s == last.prev.s
            n == last.prev.n
            t == last.res.val
        IN  /\ n <= Len(s)
            /\ n < Len(s) => IsPrefix(Drop(s, n), t)
            /\ n = 0 => IsPrefix(s, t)
            /\ (n = Len(s) /\ s # << >> /\ t # << >>) => t[1] = s[Len(s)] + 1

\* C4 witness: fill_buf returned 1 2 through the BufReader bridge, one byte
\* was consumed, and the next fill_buf returned 2.
BufReadCursorReached ==
    /\ wrap = "BufReader"
    /\ last.op = "fill_buf"
    /\ last.prev = [valid |-> TRUE, s |-> <<1, 2>>, n |-> 1]
    /\ last.res = Ok(<<2>>)

\* C5.  Through the core face of a host buffered reader (FromStd, or the
\* BufReader bridge) whose source does not fail: a read_exact of as many
\* bytes as are left returns exactly those bytes, in order, and leaves
\* nothing; every read after such a read_exact returns 0 bytes.
ReadExactThenEof ==
    wrap \in {"FromStd", "BufReader"} =>
        /\ (last.op = "read_exact" /\ last.arg = Len(last.pre) /\ last.fault = "none") =>
              /\ last.res = Ok(last.pre)
              /\ Remaining(w) = << >>
        /\ (drained.done /\ last.op = "read" /\ last.fault = "none") =>
              last.res = Ok(<< >>)

\* C5 witness: read_exact of four bytes returned 1 2 3 4 through FromStd and
\* a later read into a two byte buffer returned 0 bytes.
ReadExactThenEofReached ==
    /\ wrap = "FromStd"
    /\ drained = [done |-> TRUE, bytes |-> <<1, 2, 3, 4>>]
    /\ last.op = "read"
    /\ last.arg = 2
    /\ last.res = Ok(<< >>)

\* C6, as amended.  Every method bridge.rs defines on FromStd (core face),
\* ToStd (host face) and the BufReader and BufWriter bridges calls the
\* corresponding method of the wrapped value exactly once; it returns Err
\* exactly when that call did, Ok with the same value otherwise; the error
\* is of the target type and keeps its kind when the target type has that
\* kind, and is Other when it has not.
ErrorPropagatedOnce ==
    (last.op # "none" /\ wrap # "Sink" /\ Defines(wrap, last.op)) =>
        /\ last.log = <<last.op>>
        /\ last.res.ok = last.dres.ok
        /\ last.res.ok => last.res.val = last.dres.val
        /\ ~last.res.ok =>
              /\ last.res.val.ty = (IF wrap = "ToStd" THEN "std" ELSE "core")
              /\ last.dres.val.ty = DomOf(wrap)
              /\ last.res.val.kind \in KindsOf(last.res.val.ty)
              /\ last.res.val.kind =
                    IF last.dres.val.kind \in KindsOf(last.res.val.ty)
                    THEN last.dres.val.kind ELSE "Other"

\* C6 witness: fill_buf through the BufReader bridge failed once with the
\* BrokenPipe of the source, converted to the core error of that kind.
ErrorPropagatedReached ==
    /\ wrap = "BufReader"
    /\ last.op = "fill_buf"
    /\ last.log = <<"fill_buf">>
    /\ last.dres = Err(Error("std", "BrokenPipe"))
    /\ last.res = Err(Error("core", "BrokenPipe"))

\* C6 as stated: as above, with the error kind preserved by the conversion
\* in every case.
ErrorKindPreserved ==
    (last.op # "none" /\ wrap # "Sink" /\ Defines(wrap, last.op)) =>
        /\ last.log = <<last.op>>
        /\ last.res.ok = last.dres.ok
        /\ last.res.ok => last.res.val = last.dres.val
        /\ ~last.res.ok => last.res.val.kind = last.dres.val.kind

\* C11.  Unknown identifiers are errors, never a fallback variant.  A string
\* that is none of the six Display names is refused by FromStr with an error
\* that carries the string, and a string that is none of the six core
\* arguments is refused by from_core_arg likewise; a chain hash that is none
\* of the six constants is refused by TryFrom<ChainHash> with an error that
\* carries the hash, and from_chain_hash returns None; a magic that is none
\* of the six magics gives None from from_magic.
UnknownIsError ==
    /\ (netOut.op = "parse_display"
            /\ \A n \in Network : extIn.v # DisplayNames[n]) =>
          /\ netOut.res = Err(extIn.v)
          /\ netOut.fwd = "none"
    /\ (netOut.op = "parse_core_arg"
            /\ \A n \in Network : extIn.v # CoreArgNames[n]) =>
          /\ netOut.res = Err(extIn.v)
          /\ netOut.fwd = "none"
    /\ (netOut.op = "back_chain_hash"
            /\ \A n \in Network : extIn.v # ChainHashOf[n]) =>
          /\ netOut.res = << Err(extIn.v), Err("None") >>
          /\ netOut.fwd = "none"
    /\ (netOut.op = "magic_deserialize" /\ netOut.fwd.ok
            /\ \A n \in Network : extIn.v # MagicBytes[n]) =>
          netOut.res = Err("None")

\* C11 witness: "fakenet" was parsed and refused with the error of that
\* string.
UnknownIsErrorReached ==
    /\ netOut.op = "parse_display"
    /\ extIn = [ty |-> "str", v |-> "fakenet"]
    /\ netOut.res = Err("fakenet")

\* C13.  The two textual namespaces never confuse variants.  The core
\* argument of a variant n given to FromStr, and the Display string of n
\* given to from_core_arg, return Ok(n) or an error and never another
\* variant: an error that carries the string for Bitcoin and Testnet ("main"
\* and "test" are no Display names, "bitcoin" and "testnet" no core
\* arguments), Ok(n) for Testnet4, Signet, Regtest and CPUNet, whose two
\* names are the same string.
NamespacesApart ==
    /\ netOut.op = "core_arg_from_str" =>
          /\ netOut.fwd = CoreArgNames[netIn]
          /\ netOut.res = IF netIn \in {"Bitcoin", "Testnet"}
                          THEN Err(CoreArgNames[netIn]) ELSE Ok(netIn)
    /\ netOut.op = "display_from_core_arg" =>
          /\ netOut.fwd = DisplayNames[netIn]
          /\ netOut.res = IF netIn \in {"Bitcoin", "Testnet"}
                          THEN Err(DisplayNames[netIn]) ELSE Ok(netIn)
    /\ \A n \in Network :
          (to_core_arg(n) = to_string(n)) <=> n \notin {"Bitcoin", "Testnet"}

\* C13 witness: "testnet", the Display string of Testnet, was given to
\* from_core_arg and refused.
NamespacesApartReached ==
    /\ netOut.op = "display_from_core_arg"
    /\ netIn = "Testnet"
    /\ netOut.fwd = "testnet"
    /\ netOut.res = Err("testnet")

\* C12.  Both faces of one FromStd or ToStd act on the one wrapped value.
\* After any interleaving of calls through the core face and the host face
\* the wrapped value is in the state the same calls, made directly, leave
\* it in; each call is one call of the wrapped value's method and returns
\* what the direct call returns (the same bytes, count or unit; an error,
\* of the face's error type, exactly when the direct call fails); a
\* fill_buf begins where the consumes after the previous fill_buf stopped,
\* through whichever faces they were made; and inner(), inner_mut() and
\* into_inner() give the wrapped value in that same state.
FacesShareState ==
    /\ w = d
    /\ last.op \notin {"none", "inner", "inner_mut", "into_inner"} =>
          /\ last.log = <<last.op>>
          /\ last.res.ok = last.dres.ok
          /\ last.res.ok => last.res = last.dres
          /\ ~last.res.ok => last.res.val.ty = last.face
    /\ (last.op = "fill_buf" /\ last.res.ok /\ last.prev.valid) =>
          LET s == last.prev.s
              n == last.prev.n
              t == last.res.val
          IN  /\ n < Len(s) => IsPrefix(Drop(s, n), t)
              /\ (n = Len(s) /\ s # << >> /\ t # << >>) => t[1] = s[Len(s)] + 1
    /\ last.op \in {"inner", "inner_mut", "into_inner"} =>
          last.res = last.dres

\* C12 witness: fill_buf through the core face of a FromStd returned 1 2,
\* one byte was consumed through the host face, and fill_buf through the
\* core face returned 2.
FacesShareStateReached ==
    /\ wrap = "FromStd"
    /\ last.op = "fill_buf"
    /\ last.face = "core"
    /\ last.prev = [valid |-> TRUE, s |-> <<1, 2>>, n |-> 1, faces |-> {"core", "std"}]
    /\ last.res = Ok(<<2>>)

=============================================================================
